---- MODULE Spec2Model ----
(***************************************************************************)
(* Model of parry's shape capability interface (src/shape/shape.rs) and of *)
(* the convex-hull support-point utilities                                 *)
(* (src/transformation/convex_hull_utils.rs).                              *)
(*                                                                         *)
(* Real numbers are modelled by integers.  The finite range of Real is     *)
(* -RealMax..RealMax; an arithmetic result outside of it becomes an        *)
(* infinity (Inf or -Inf), as floating point overflow does.                *)
(***************************************************************************)
EXTENDS Integers, Sequences, FiniteSets, TLC

VARIABLES
    direction,  \* support-point utilities: the `direction` argument
    points,     \* support-point utilities: the `points` slice
    idx,        \* support-point utilities: the elements the `idx` iterator yields
    coords,     \* normalize: the caller's point buffer, `coords`
    dim,        \* shape interface: the build's dimension, 2 (dim2) or 3 (dim3)
    shape,      \* shape interface: the shape behind the `&dyn Shape` handle
    ret         \* the last call made and what it returned

vars == <<direction, points, idx, coords, dim, shape, ret>>

hullVars == <<direction, points, idx, coords>>

shapeVars == <<dim, shape>>

----------------------------------------------------------------------------
(* Scalars *)

\* Real::MAX, the largest finite scalar (scaled down).
RealMax == 10

Inf == RealMax + 1

\* Rounding of an exact result to Real: overflow gives an infinity.
Sat(x) == IF x > RealMax THEN Inf ELSE IF x < -RealMax THEN -Inf ELSE x

\* Option<T>
None == [some |-> FALSE]

Some(x) == [some |-> TRUE, val |-> x]

\* The sequences over S of length at most n.
SeqUpTo(S, n) == UNION {[1..k -> S] : k \in 0..n}

----------------------------------------------------------------------------
(* Support-point utilities *)

\* direction.dot(&pt.coords), for vectors of any dimension
RECURSIVE DotFrom(_, _, _)
DotFrom(u, v, k) ==
    IF k > Len(u) THEN 0 ELSE u[k] * v[k] + DotFrom(u, v, k + 1)

Dot(u, v) == Sat(DotFrom(u, v, 1))

\* The loop of support_point_id with `>=` for `>`: the last of the points that
\* tie for the maximum wins.
RECURSIVE support_point_id_ge(_, _, _, _, _)
support_point_id_ge(dir, pts, id, argmax, max) ==
    IF id >= Len(pts) THEN argmax
    ELSE LET dot == Dot(dir, pts[id + 1])
         IN  IF dot >= max
             THEN support_point_id_ge(dir, pts, id + 1, Some(id), dot)
             ELSE support_point_id_ge(dir, pts, id + 1, argmax, max)

\* The loop of support_point_id, from iteration `id` on (0-based) with the
\* accumulators argmax and max.
RECURSIVE support_point_id_loop(_, _, _, _, _)
support_point_id_loop(dir, pts, id, argmax, max) ==
    IF id >= Len(pts) THEN argmax
    ELSE LET dot == Dot(dir, pts[id + 1])
         IN  IF dot > max
             THEN support_point_id_loop(dir, pts, id + 1, Some(id), dot)
             ELSE support_point_id_loop(dir, pts, id + 1, argmax, max)

\* support_point_id with argmax starting at index 0 instead of None.
support_point_id_default(dir, pts) ==
    support_point_id_loop(dir, pts, 0, Some(0), -RealMax)

support_point_id(dir, pts) ==
    support_point_id_loop(dir, pts, 0, None, -RealMax)

\* The loop of indexed_support_point_id storing the position k instead of the
\* element i.
RECURSIVE indexed_support_point_id_pos(_, _, _, _, _, _)
indexed_support_point_id_pos(dir, pts, ix, k, argmax, max) ==
    IF k >= Len(ix) THEN argmax
    ELSE LET i   == ix[k + 1]
             dot == Dot(dir, pts[i + 1])
         IN  IF dot > max
             THEN indexed_support_point_id_pos(dir, pts, ix, k + 1, Some(k), dot)
             ELSE indexed_support_point_id_pos(dir, pts, ix, k + 1, argmax, max)

\* The loop of indexed_support_point_id over the elements ix yields, from
\* position k on (0-based).
RECURSIVE indexed_support_point_id_loop(_, _, _, _, _, _)
indexed_support_point_id_loop(dir, pts, ix, k, argmax, max) ==
    IF k >= Len(ix) THEN argmax
    ELSE LET i   == ix[k + 1]
             dot == Dot(dir, pts[i + 1])
         IN  IF dot > max
             THEN indexed_support_point_id_loop(dir, pts, ix, k + 1, Some(i), dot)
             ELSE indexed_support_point_id_loop(dir, pts, ix, k + 1, argmax, max)

indexed_support_point_id(dir, pts, ix) ==
    indexed_support_point_id_loop(dir, pts, ix, 0, None, -RealMax)

\* The loop of indexed_support_point_nth with `>=` for `>`: the last of the
\* positions that tie for the maximum wins.
RECURSIVE indexed_support_point_nth_last(_, _, _, _, _, _)
indexed_support_point_nth_last(dir, pts, ix, k, argmax, max) ==
    IF k >= Len(ix) THEN argmax
    ELSE LET i   == ix[k + 1]
             dot == Dot(dir, pts[i + 1])
         IN  IF dot >= max
             THEN indexed_support_point_nth_last(dir, pts, ix, k + 1, Some(k), dot)
             ELSE indexed_support_point_nth_last(dir, pts, ix, k + 1, argmax, max)

\* The loop of indexed_support_point_nth.
RECURSIVE indexed_support_point_nth_loop(_, _, _, _, _, _)
indexed_support_point_nth_loop(dir, pts, ix, k, argmax, max) ==
    IF k >= Len(ix) THEN argmax
    ELSE LET i   == ix[k + 1]
             dot == Dot(dir, pts[i + 1])
         IN  IF dot > max
             THEN indexed_support_point_nth_loop(dir, pts, ix, k + 1, Some(k), dot)
             ELSE indexed_support_point_nth_loop(dir, pts, ix, k + 1, argmax, max)

indexed_support_point_nth(dir, pts, ix) ==
    indexed_support_point_nth_loop(dir, pts, ix, 0, None, -RealMax)

----------------------------------------------------------------------------
(* The calls of the support-point utilities *)

\* Longest point slice and longest index sequence passed.
MaxPoints == 3

MaxIdx == 2

\* The points and directions the callers pass (3-D).
PointPool ==
    { <<0, 0, 0>>, <<2, 0, 0>>, <<1, 5, 0>>, <<-RealMax, 0, 0>> }

DirectionPool ==
    { <<1, 0, 0>>, <<0, 1, 0>>, <<-1, 0, 0>> }

NoCall == [op |-> "none"]

\* No shape is involved in the calls of the support-point utilities.
NoShape == [type |-> "none"]

InitHull ==
    /\ direction \in DirectionPool
    /\ points \in SeqUpTo(PointPool, MaxPoints)
    /\ idx \in SeqUpTo(0..(Len(points) - 1), MaxIdx)
    /\ coords = <<>>
    /\ dim = 3
    /\ shape = NoShape
    /\ ret = NoCall

CallSupportPointId ==
    /\ ret' = [op |-> "support_point_id", out |-> support_point_id(direction, points)]
    /\ UNCHANGED <<hullVars, shapeVars>>

CallIndexedSupportPointId ==
    /\ ret' = [op  |-> "indexed_support_point_id",
               out |-> indexed_support_point_id(direction, points, idx)]
    /\ UNCHANGED <<hullVars, shapeVars>>

CallIndexedSupportPointNth ==
    /\ ret' = [op  |-> "indexed_support_point_nth",
               out |-> indexed_support_point_nth(direction, points, idx)]
    /\ UNCHANGED <<hullVars, shapeVars>>

NextHull ==
    \/ CallSupportPointId
    \/ CallIndexedSupportPointId
    \/ CallIndexedSupportPointNth

SpecHull == InitHull /\ [][NextHull]_vars

----------------------------------------------------------------------------
(* Properties of the support-point utilities *)

\* dot(direction, points[i]) for a 0-based index i
DotAt(i) == Dot(direction, points[i + 1])

PointIds == 0..(Len(points) - 1)

ExampleDirection == <<1, 0, 0>>

ExamplePoints == << <<0, 0, 0>>, <<2, 0, 0>>, <<1, 5, 0>> >>

ExampleIdx == <<0, 2>>

\* C1: whenever support_point_id returns Some(i), i is a valid index of
\* points, dot(direction, points[i]) is the maximum dot product over all the
\* points, and no index j < i has the same dot product; for direction (1,0,0)
\* and points [(0,0,0),(2,0,0),(1,5,0)] it returns Some(1).
C1_SupportPointIdFirstMax ==
    ret.op = "support_point_id" =>
        /\ ret.out.some =>
              LET i == ret.out.val
              IN  /\ i \in PointIds
                  /\ \A j \in PointIds : DotAt(j) <= DotAt(i)
                  /\ \A j \in PointIds : j < i => DotAt(j) # DotAt(i)
        /\ (direction = ExampleDirection /\ points = ExamplePoints)
              => ret.out = Some(1)

\* A tie for the maximum: the returned index is followed by a point with the
\* same dot product.
C1_Witness ==
    /\ ret.op = "support_point_id"
    /\ ret.out.some
    /\ \E j \in PointIds : j > ret.out.val /\ DotAt(j) = DotAt(ret.out.val)

\* The positions (1-based) of idx whose point attains the maximum dot product
\* over the elements of idx.
MaxPositions ==
    {k \in 1..Len(idx) : \A l \in 1..Len(idx) : DotAt(idx[l]) <= DotAt(idx[k])}

\* C7: whenever indexed_support_point_id returns Some(i), i is an index into
\* points that idx yields, dot(direction, points[i]) is the maximum over the
\* elements of idx only, and i is the first element of idx, in iteration
\* order, that attains it; for direction (1,0,0), points
\* [(0,0,0),(2,0,0),(1,5,0)] and idx [0,2] it returns Some(2).
C7_IndexedIdFirstMaxOfIdx ==
    ret.op = "indexed_support_point_id" =>
        /\ ret.out.some =>
              LET i == ret.out.val
              IN  /\ i \in PointIds
                  /\ \E k \in 1..Len(idx) : idx[k] = i
                  /\ \A k \in 1..Len(idx) : DotAt(idx[k]) <= DotAt(i)
                  /\ \E k \in MaxPositions :
                        /\ idx[k] = i
                        /\ \A l \in MaxPositions : k <= l
        /\ (direction = ExampleDirection /\ points = ExamplePoints /\ idx = ExampleIdx)
              => ret.out = Some(2)

\* The winner is not at the position its index names, and a point that idx
\* does not yield has a larger dot product.
C7_Witness ==
    /\ ret.op = "indexed_support_point_id"
    /\ ret.out.some
    /\ \A k \in 1..Len(idx) : idx[k] = ret.out.val => k - 1 # ret.out.val
    /\ \E j \in PointIds : DotAt(j) > DotAt(ret.out.val)

\* C8: indexed_support_point_nth returns Some(k) iff indexed_support_point_id
\* returns Some(i) on the same arguments, and then the k-th element of idx
\* (0-based) is i and k is the smallest position of idx whose point attains
\* the maximum dot product; for direction (1,0,0), points
\* [(0,0,0),(2,0,0),(1,5,0)] and idx [0,2] it returns Some(1).
C8_NthAgreesWithId ==
    ret.op = "indexed_support_point_nth" =>
        LET id == indexed_support_point_id(direction, points, idx)
        IN  /\ ret.out.some <=> id.some
            /\ ret.out.some =>
                  /\ ret.out.val \in 0..(Len(idx) - 1)
                  /\ idx[ret.out.val + 1] = id.val
                  /\ ret.out.val + 1 \in MaxPositions
                  /\ \A l \in MaxPositions : ret.out.val + 1 <= l
            /\ (direction = ExampleDirection /\ points = ExamplePoints /\ idx = ExampleIdx)
                  => ret.out = Some(1)

\* The position returned differs from the index at it, and a later position
\* of idx ties for the maximum.
C8_Witness ==
    /\ ret.op = "indexed_support_point_nth"
    /\ ret.out.some
    /\ idx[ret.out.val + 1] # ret.out.val
    /\ \E l \in MaxPositions : l > ret.out.val + 1

\* C9: support_point_id on an empty point sequence, and
\* indexed_support_point_id and indexed_support_point_nth on an empty index
\* sequence, return None for every direction.
C9_EmptyGivesNone ==
    /\ (ret.op = "support_point_id" /\ points = <<>>) => ret.out = None
    /\ (ret.op = "indexed_support_point_id" /\ idx = <<>>) => ret.out = None
    /\ (ret.op = "indexed_support_point_nth" /\ idx = <<>>) => ret.out = None

C9_Witness ==
    /\ ret.op = "support_point_id"
    /\ points = <<>>
    /\ ret.out = None

----------------------------------------------------------------------------
(* Geometry consumed by the shape interface: vectors, isometries, AABBs *)

\* A vector of the build's dimension d.
Vec(d, x, y, z) == IF d = 2 THEN <<x, y>> ELSE <<x, y, z>>

\* Vector::repeat
Repeat(d, x) == Vec(d, x, x, x)

\* Vector::min, the smallest component
RECURSIVE MinFrom(_, _)
MinFrom(v, k) ==
    IF k = Len(v) THEN v[k]
    ELSE LET m == MinFrom(v, k + 1) IN IF v[k] < m THEN v[k] ELSE m

VecMin(v) == MinFrom(v, 1)

\* An isometry: `rot` quarter turns of the first two axes, then a translation.
Isometry(rot, tr) == [rot |-> rot, tr |-> tr]

Identity(d) == Isometry(0, Repeat(d, 0))

AABB(mins, maxs) == [mins |-> mins, maxs |-> maxs]

\* AABB::new_invalid
new_invalid(d) == AABB(Repeat(d, RealMax), Repeat(d, -RealMax))

\* AABB::loosened: the box enlarged by `amount` in every direction
loosened(bb, amount) ==
    AABB([k \in DOMAIN bb.mins |-> Sat(bb.mins[k] - amount)],
         [k \in DOMAIN bb.maxs |-> Sat(bb.maxs[k] + amount)])

\* AABB::half_extents
half_extents(bb) == [k \in DOMAIN bb.mins |-> (bb.maxs[k] - bb.mins[k]) \div 2]

\* AABB::merged
merged(a, b) ==
    AABB([k \in DOMAIN a.mins |-> IF a.mins[k] < b.mins[k] THEN a.mins[k] ELSE b.mins[k]],
         [k \in DOMAIN a.maxs |-> IF a.maxs[k] > b.maxs[k] THEN a.maxs[k] ELSE b.maxs[k]])

\* AABB::transform_by: the bounding box of the box moved by the isometry.  A
\* quarter turn maps (x, y) to (-y, x).
transform_by(bb, pos) ==
    LET rmins == IF pos.rot = 0 THEN bb.mins
                 ELSE [k \in DOMAIN bb.mins |->
                          IF k = 1 THEN -bb.maxs[2] ELSE IF k = 2 THEN bb.mins[1] ELSE bb.mins[k]]
        rmaxs == IF pos.rot = 0 THEN bb.maxs
                 ELSE [k \in DOMAIN bb.maxs |->
                          IF k = 1 THEN -bb.mins[2] ELSE IF k = 2 THEN bb.maxs[1] ELSE bb.maxs[k]]
    IN  AABB([k \in DOMAIN rmins |-> Sat(rmins[k] + pos.tr[k])],
             [k \in DOMAIN rmaxs |-> Sat(rmaxs[k] + pos.tr[k])])

\* bounding_volume::details::local_point_cloud_aabb
RECURSIVE local_point_cloud_aabb_from(_, _)
local_point_cloud_aabb_from(pts, k) ==
    IF k = Len(pts) THEN AABB(pts[k], pts[k])
    ELSE merged(AABB(pts[k], pts[k]), local_point_cloud_aabb_from(pts, k + 1))

local_point_cloud_aabb(pts) == local_point_cloud_aabb_from(pts, 1)

----------------------------------------------------------------------------
(* The concrete shapes *)

Ball(radius) == [type |-> "Ball", radius |-> radius]

Cuboid(he) == [type |-> "Cuboid", half_extents |-> he]

Segment(a, b) == [type |-> "Segment", a |-> a, b |-> b]

Capsule(a, b, radius) == [type |-> "Capsule", segment |-> Segment(a, b), radius |-> radius]

Triangle(a, b, c) == [type |-> "Triangle", a |-> a, b |-> b, c |-> c]

\* TriMesh, Polyline and HeightField are known here by their local AABB only.
TriMesh(bb) == [type |-> "TriMesh", aabb |-> bb]

Polyline(bb) == [type |-> "Polyline", aabb |-> bb]

HeightField(bb) == [type |-> "HeightField", aabb |-> bb]

HalfSpace(normal) == [type |-> "HalfSpace", normal |-> normal]

ConvexPolygon(pts) == [type |-> "ConvexPolygon", points |-> pts]

ConvexPolyhedron(pts) == [type |-> "ConvexPolyhedron", points |-> pts]

Cylinder(hh, radius) == [type |-> "Cylinder", half_height |-> hh, radius |-> radius]

Cone(hh, radius) == [type |-> "Cone", half_height |-> hh, radius |-> radius]

RoundShape(base, r) == [type |-> "RoundShape", base_shape |-> base, border_radius |-> r]

\* The runtime type of a shape value, the TypeId that downcast_ref compares.
TypeOf(s) == IF s.type = "RoundShape" THEN <<"RoundShape", s.base_shape.type>> ELSE <<s.type>>

\* The inherent S::local_aabb() of the primitives.
local_aabb(s) ==
    CASE s.type = "Ball" ->
            AABB(Repeat(dim, -s.radius), Repeat(dim, s.radius))
      [] s.type = "Cuboid" ->
            AABB([k \in DOMAIN s.half_extents |-> -s.half_extents[k]], s.half_extents)
      [] s.type = "Capsule" ->
            loosened(local_point_cloud_aabb(<<s.segment.a, s.segment.b>>), s.radius)
      [] s.type = "Segment" -> local_point_cloud_aabb(<<s.a, s.b>>)
      [] s.type = "Triangle" -> local_point_cloud_aabb(<<s.a, s.b, s.c>>)
      [] s.type \in {"ConvexPolygon", "ConvexPolyhedron"} -> local_point_cloud_aabb(s.points)
      [] s.type \in {"Cylinder", "Cone"} ->
            AABB(Vec(dim, -s.radius, -s.half_height, -s.radius),
                 Vec(dim, s.radius, s.half_height, s.radius))
      [] s.type = "HalfSpace" -> AABB(Repeat(dim, -RealMax), Repeat(dim, RealMax))
      [] s.type \in {"TriMesh", "Polyline", "HeightField", "Compound"} -> s.aabb

\* The inherent S::aabb(position) of the primitives.
aabb(s, pos) == transform_by(local_aabb(s), pos)

----------------------------------------------------------------------------
(* impl Shape for ... *)

\* A RoundShape<S> tagged as its base shape S is.
RoundTagOfBase(S) == S

\* The second argument of impl_shape_for_round_shape!: the tag of RoundShape<S>.

RoundTag(S) ==
    CASE S = "Cuboid" -> "RoundCuboid"
      [] S = "Triangle" -> "RoundTriangle"
      [] S = "ConvexPolygon" -> "RoundConvexPolygon"
      [] S = "Cylinder" -> "RoundCylinder"
      [] S = "Cone" -> "RoundCone"
      [] S = "ConvexPolyhedron" -> "RoundConvexPolyhedron"

\* Shape::shape_type
shape_type(s) ==
    CASE s.type = "RoundShape" -> RoundTag(s.base_shape.type)
      [] s.type = "Ball" -> "Ball"
      [] s.type = "Cuboid" -> "Cuboid"
      [] s.type = "Capsule" -> "Capsule"
      [] s.type = "Triangle" -> "Triangle"
      [] s.type = "Segment" -> "Segment"
      [] s.type = "Compound" -> "Compound"
      [] s.type = "Polyline" -> "Polyline"
      [] s.type = "TriMesh" -> "TriMesh"
      [] s.type = "HeightField" -> "HeightField"
      [] s.type = "ConvexPolygon" -> "ConvexPolygon"
      [] s.type = "ConvexPolyhedron" -> "ConvexPolyhedron"
      [] s.type = "Cylinder" -> "Cylinder"
      [] s.type = "Cone" -> "Cone"
      [] s.type = "HalfSpace" -> "HalfSpace"

\* RoundShape<S>::compute_local_aabb

RoundShape_compute_local_aabb(s) == loosened(local_aabb(s.base_shape), s.border_radius)

\* Shape::compute_local_aabb
compute_local_aabb(s) ==
    IF s.type = "RoundShape" THEN RoundShape_compute_local_aabb(s) ELSE local_aabb(s)

\* The provided method Shape::compute_aabb
Shape_compute_aabb(s, position) == transform_by(compute_local_aabb(s), position)

\* Compound::compute_aabb
Compound_compute_aabb(s, position) == transform_by(s.aabb, position)

\* RoundShape<S>::compute_aabb without the border.
RoundShape_compute_aabb_tight(s, position) == aabb(s.base_shape, position)

\* RoundShape<S>::compute_aabb

RoundShape_compute_aabb(s, position) ==
    loosened(aabb(s.base_shape, position), s.border_radius)

\* Shape::compute_aabb as the impls override it
compute_aabb(s, position) ==
    CASE s.type = "RoundShape" -> RoundShape_compute_aabb(s, position)
      [] s.type = "Compound" -> Compound_compute_aabb(s, position)
      [] OTHER -> aabb(s, position)

\* f32::MAX as Real, with Real = f32
F32_MAX == RealMax

RECURSIVE ccd_thickness(_)

\* Real::min
RealMin(a, b) == IF b < a THEN b ELSE a

\* Compound::ccd_thickness: the fold over self.shapes(), from child k on
RECURSIVE Compound_ccd_fold(_, _, _)
Compound_ccd_fold(shapes, k, curr) ==
    IF k > Len(shapes) THEN curr
    ELSE Compound_ccd_fold(shapes, k + 1, RealMin(curr, ccd_thickness(shapes[k][2])))

\* Compound::ccd_thickness looking at the first child only.
Compound_ccd_thickness_first(s) ==
    IF Len(s.shapes) = 0 THEN RealMax ELSE ccd_thickness(s.shapes[1][2])

\* Compound::ccd_thickness folding from the lowest scalar instead of Real::MAX.
Compound_ccd_thickness_from_lowest(s) == Compound_ccd_fold(s.shapes, 1, -RealMax)

\* Compound::ccd_thickness

Compound_ccd_thickness(s) == Compound_ccd_fold(s.shapes, 1, RealMax)

\* RoundShape<S>::ccd_thickness without the border.
RoundShape_ccd_thickness_base(s) == ccd_thickness(s.base_shape)

\* RoundShape<S>::ccd_thickness

RoundShape_ccd_thickness(s) == Sat(ccd_thickness(s.base_shape) + s.border_radius)

\* Shape::ccd_thickness
ccd_thickness(s) ==
    CASE s.type = "RoundShape" -> RoundShape_ccd_thickness(s)
      [] s.type = "Compound" -> Compound_ccd_thickness(s)
      [] s.type \in {"Ball", "Capsule", "Cylinder", "Cone"} -> s.radius
      [] s.type = "Cuboid" -> VecMin(s.half_extents)
      [] s.type \in {"Triangle", "Segment", "Polyline", "TriMesh", "HeightField"} -> 0
      [] s.type \in {"ConvexPolygon", "ConvexPolyhedron"} ->
            VecMin(half_extents(compute_local_aabb(s)))
      [] s.type = "HalfSpace" -> F32_MAX

RECURSIVE is_convex(_)

\* RoundShape<S>::is_convex
RoundShape_is_convex(s) == is_convex(s.base_shape)

\* Shape::is_convex; the impls of Compound, Polyline, TriMesh and HeightField
\* keep the provided method, which returns false.
is_convex(s) ==
    CASE s.type = "RoundShape" -> RoundShape_is_convex(s)
      [] s.type \in {"Ball", "Cuboid", "Capsule", "Triangle", "Segment", "ConvexPolygon",
                     "ConvexPolyhedron", "Cylinder", "Cone", "HalfSpace"} -> TRUE
      [] OTHER -> FALSE

\* Shape::as_support_map with the override of RoundShape<S> left out.
as_support_map_round_default(s) ==
    CASE s.type \in {"Ball", "Cuboid", "Capsule", "Triangle", "Segment", "ConvexPolygon",
                     "ConvexPolyhedron", "Cylinder", "Cone"} -> Some(s)
      [] OTHER -> None

\* Shape::as_support_map; the impls of Compound, Polyline, TriMesh, HeightField
\* and HalfSpace keep the provided method, which returns None.
as_support_map(s) ==
    CASE s.type \in {"Ball", "Cuboid", "Capsule", "Triangle", "Segment", "ConvexPolygon",
                     "ConvexPolyhedron", "Cylinder", "Cone", "RoundShape"} -> Some(s)
      [] OTHER -> None

\* Compound::new: the local AABB is computed once, from the children's AABBs
\* at their poses.  A child is <<pose, shape>>.
RECURSIVE compound_aabb_from(_, _)
compound_aabb_from(shapes, k) ==
    IF k > Len(shapes) THEN new_invalid(dim)
    ELSE merged(compute_aabb(shapes[k][2], shapes[k][1]), compound_aabb_from(shapes, k + 1))

Compound(shapes) ==
    [type |-> "Compound", shapes |-> shapes, aabb |-> compound_aabb_from(shapes, 1)]

----------------------------------------------------------------------------
(* impl dyn Shape: downcasting *)

\* The type aliases of the rounded shapes.
RoundCuboid == <<"RoundShape", "Cuboid">>

RoundTriangle == <<"RoundShape", "Triangle">>

RoundConvexPolygon == <<"RoundShape", "ConvexPolygon">>

RoundCylinder == <<"RoundShape", "Cylinder">>

RoundCone == <<"RoundShape", "Cone">>

RoundConvexPolyhedron == <<"RoundShape", "ConvexPolyhedron">>

\* downcast_rs: Some(the value itself) iff the value's TypeId is that of T.
downcast_ref(s, T) == IF TypeOf(s) = T THEN Some(s) ELSE None

as_shape(s, T) == downcast_ref(s, T)

as_ball(s) == downcast_ref(s, <<"Ball">>)

as_cuboid(s) == downcast_ref(s, <<"Cuboid">>)

as_capsule(s) == downcast_ref(s, <<"Capsule">>)

as_triangle(s) == downcast_ref(s, <<"Triangle">>)

as_compound(s) == downcast_ref(s, <<"Compound">>)

as_trimesh(s) == downcast_ref(s, <<"TriMesh">>)

as_polyline(s) == downcast_ref(s, <<"Polyline">>)

as_heightfield(s) == downcast_ref(s, <<"HeightField">>)

\* as_round_cuboid converting to the base type.
as_round_cuboid_base(s) == downcast_ref(s, <<"Cuboid">>)

as_round_cuboid(s) == downcast_ref(s, RoundCuboid)

as_round_triangle(s) == downcast_ref(s, RoundTriangle)

as_convex_polygon(s) == downcast_ref(s, <<"ConvexPolygon">>)

as_round_convex_polygon(s) == downcast_ref(s, RoundConvexPolygon)

as_convex_polyhedron(s) == downcast_ref(s, <<"ConvexPolyhedron">>)

as_cylinder(s) == downcast_ref(s, <<"Cylinder">>)

as_cone(s) == downcast_ref(s, <<"Cone">>)

as_round_cylinder(s) == downcast_ref(s, RoundCylinder)

as_round_cone(s) == downcast_ref(s, RoundCone)

as_round_convex_polyhedron(s) == downcast_ref(s, RoundConvexPolyhedron)

----------------------------------------------------------------------------
(* The shapes behind the handle, and the calls made through it *)

\* Largest radius, half-extent and border radius of the shapes built.
MaxRadius == 2

\* Largest number of children of a compound.
MaxChildren == 2

Radii == 0..MaxRadius

\* The concrete types that implement Shape in a build of dimension d.
ShapeTypes(d) ==
    { <<"Ball">>, <<"Cuboid">>, <<"Capsule">>, <<"Segment">>, <<"Triangle">>, <<"TriMesh">>,
      <<"Polyline">>, <<"HalfSpace">>, <<"HeightField">>, <<"Compound">>,
      RoundCuboid, RoundTriangle }
    \cup (IF d = 2
          THEN { <<"ConvexPolygon">>, RoundConvexPolygon }
          ELSE { <<"ConvexPolyhedron">>, <<"Cylinder">>, <<"Cone">>,
                 RoundCylinder, RoundCone, RoundConvexPolyhedron })

Cuboids(d) == { Cuboid(Vec(d, a, 2, 1)) : a \in Radii }

Triangles(d) ==
    { Triangle(Vec(d, 0, 0, 0), Vec(d, 2, 0, 0), Vec(d, 0, 2, 0)),
      Triangle(Vec(d, -1, -1, 1), Vec(d, 1, -1, 1), Vec(d, -1, 3, 3)) }

ConvexHulls(d) ==
    IF d = 2
    THEN { ConvexPolygon(<< <<0, 0>>, <<4, 0>>, <<4, 2>>, <<0, 2>> >>),
           ConvexPolygon(<< <<-1, -1>>, <<1, -1>>, <<-1, 1>> >>) }
    ELSE { ConvexPolyhedron(<< <<0, 0, 0>>, <<4, 0, 0>>, <<0, 2, 0>>, <<0, 0, 6>> >>),
           ConvexPolyhedron(<< <<-1, -1, -1>>, <<1, -1, -1>>, <<-1, 1, -1>>, <<-1, -1, 1>> >>) }

Cylinders(d) == IF d = 2 THEN {} ELSE { Cylinder(1, r) : r \in Radii }

Cones(d) == IF d = 2 THEN {} ELSE { Cone(2, r) : r \in Radii }

\* The shapes RoundShape wraps.
Roundables(d) == Cuboids(d) \cup Triangles(d) \cup ConvexHulls(d) \cup Cylinders(d) \cup Cones(d)

RoundShapes(d) == { RoundShape(b, r) : b \in Roundables(d), r \in Radii }

Primitives(d) ==
    { Ball(r) : r \in Radii }
    \cup Cuboids(d)
    \cup { Capsule(Vec(d, 0, -1, 0), Vec(d, 0, 1, 0), r) : r \in Radii }
    \cup { Segment(Vec(d, 0, 0, 0), Vec(d, 2, 0, 0)), Segment(Vec(d, -1, 0, 1), Vec(d, 1, 2, 1)) }
    \cup Triangles(d)
    \cup { TriMesh(AABB(Vec(d, 0, 0, 0), Vec(d, 2, 4, 0))),
           Polyline(AABB(Vec(d, -1, 0, 0), Vec(d, 3, 0, 2))),
           HeightField(AABB(Vec(d, -2, 0, -2), Vec(d, 2, 1, 2))),
           HalfSpace(Vec(d, 0, 1, 0)) }
    \cup ConvexHulls(d) \cup Cylinders(d) \cup Cones(d)

\* The poses given to compute_aabb and to the children of a compound.
Poses(d) == { Identity(d), Isometry(0, Vec(d, 1, -2, 3)), Isometry(1, Vec(d, 0, 1, 0)) }

ChildPoses(d) == { Identity(d), Isometry(1, Vec(d, 0, 1, 0)) }

\* The shapes put in compounds.
ChildShapes(d) ==
    { Ball(1), Cuboid(Vec(d, 1, 2, 1)), Segment(Vec(d, 0, 0, 0), Vec(d, 2, 0, 0)),
      HalfSpace(Vec(d, 0, 1, 0)), RoundShape(Cuboid(Vec(d, 1, 2, 1)), 1) }

FlatCompounds(d) ==
    { Compound(c) : c \in SeqUpTo(ChildPoses(d) \X ChildShapes(d), MaxChildren) }

\* Compounds with a compound among their children.
NestedCompounds(d) ==
    { Compound(<< <<Identity(d), c>> >>) : c \in { f \in FlatCompounds(d) : Len(f.shapes) <= 1 } }
    \cup { Compound(<< <<p, Ball(2)>>, <<Identity(d), Compound(<< <<p, Ball(1)>> >>)>> >>) :
              p \in ChildPoses(d) }

Shapes(d) == Primitives(d) \cup RoundShapes(d) \cup FlatCompounds(d) \cup NestedCompounds(d)

Init ==
    /\ direction = <<>>
    /\ points = <<>>
    /\ idx = <<>>
    /\ coords = <<>>
    /\ dim \in {2, 3}
    /\ shape \in Shapes(dim)
    /\ ret = NoCall

Call_as_shape ==
    \E T \in ShapeTypes(dim) :
        /\ ret' = [op |-> "as_shape", T |-> T, out |-> as_shape(shape, T)]
        /\ UNCHANGED <<hullVars, shapeVars>>

Call_as_ball ==
    /\ ret' = [op |-> "as_ball", out |-> as_ball(shape)]
    /\ UNCHANGED <<hullVars, shapeVars>>

Call_as_cuboid ==
    /\ ret' = [op |-> "as_cuboid", out |-> as_cuboid(shape)]
    /\ UNCHANGED <<hullVars, shapeVars>>

Call_as_capsule ==
    /\ ret' = [op |-> "as_capsule", out |-> as_capsule(shape)]
    /\ UNCHANGED <<hullVars, shapeVars>>

Call_as_triangle ==
    /\ ret' = [op |-> "as_triangle", out |-> as_triangle(shape)]
    /\ UNCHANGED <<hullVars, shapeVars>>

Call_as_compound ==
    /\ ret' = [op |-> "as_compound", out |-> as_compound(shape)]
    /\ UNCHANGED <<hullVars, shapeVars>>

Call_as_trimesh ==
    /\ ret' = [op |-> "as_trimesh", out |-> as_trimesh(shape)]
    /\ UNCHANGED <<hullVars, shapeVars>>

Call_as_polyline ==
    /\ ret' = [op |-> "as_polyline", out |-> as_polyline(shape)]
    /\ UNCHANGED <<hullVars, shapeVars>>

Call_as_heightfield ==
    /\ ret' = [op |-> "as_heightfield", out |-> as_heightfield(shape)]
    /\ UNCHANGED <<hullVars, shapeVars>>

Call_as_round_cuboid ==
    /\ ret' = [op |-> "as_round_cuboid", out |-> as_round_cuboid(shape)]
    /\ UNCHANGED <<hullVars, shapeVars>>

Call_as_round_triangle ==
    /\ ret' = [op |-> "as_round_triangle", out |-> as_round_triangle(shape)]
    /\ UNCHANGED <<hullVars, shapeVars>>

Call_as_convex_polygon ==
    /\ dim = 2
    /\ ret' = [op |-> "as_convex_polygon", out |-> as_convex_polygon(shape)]
    /\ UNCHANGED <<hullVars, shapeVars>>

Call_as_round_convex_polygon ==
    /\ dim = 2
    /\ ret' = [op |-> "as_round_convex_polygon", out |-> as_round_convex_polygon(shape)]
    /\ UNCHANGED <<hullVars, shapeVars>>

Call_as_convex_polyhedron ==
    /\ dim = 3
    /\ ret' = [op |-> "as_convex_polyhedron", out |-> as_convex_polyhedron(shape)]
    /\ UNCHANGED <<hullVars, shapeVars>>

Call_as_cylinder ==
    /\ dim = 3
    /\ ret' = [op |-> "as_cylinder", out |-> as_cylinder(shape)]
    /\ UNCHANGED <<hullVars, shapeVars>>

Call_as_cone ==
    /\ dim = 3
    /\ ret' = [op |-> "as_cone", out |-> as_cone(shape)]
    /\ UNCHANGED <<hullVars, shapeVars>>

Call_as_round_cylinder ==
    /\ dim = 3
    /\ ret' = [op |-> "as_round_cylinder", out |-> as_round_cylinder(shape)]
    /\ UNCHANGED <<hullVars, shapeVars>>

Call_as_round_cone ==
    /\ dim = 3
    /\ ret' = [op |-> "as_round_cone", out |-> as_round_cone(shape)]
    /\ UNCHANGED <<hullVars, shapeVars>>

Call_as_round_convex_polyhedron ==
    /\ dim = 3
    /\ ret' = [op |-> "as_round_convex_polyhedron", out |-> as_round_convex_polyhedron(shape)]
    /\ UNCHANGED <<hullVars, shapeVars>>

Call_shape_type ==
    /\ ret' = [op |-> "shape_type", out |-> shape_type(shape)]
    /\ UNCHANGED <<hullVars, shapeVars>>

Call_ccd_thickness ==
    /\ ret' = [op |-> "ccd_thickness", out |-> ccd_thickness(shape)]
    /\ UNCHANGED <<hullVars, shapeVars>>

Call_is_convex ==
    /\ ret' = [op |-> "is_convex", out |-> is_convex(shape)]
    /\ UNCHANGED <<hullVars, shapeVars>>

Call_as_support_map ==
    /\ ret' = [op |-> "as_support_map", out |-> as_support_map(shape)]
    /\ UNCHANGED <<hullVars, shapeVars>>

Call_compute_local_aabb ==
    /\ ret' = [op |-> "compute_local_aabb", out |-> compute_local_aabb(shape)]
    /\ UNCHANGED <<hullVars, shapeVars>>

Call_compute_aabb ==
    \E position \in Poses(dim) :
        /\ ret' = [op |-> "compute_aabb", position |-> position,
                   out |-> compute_aabb(shape, position)]
        /\ UNCHANGED <<hullVars, shapeVars>>

\* The provided method, as a shape that does not override it runs it.
Call_Shape_compute_aabb ==
    \E position \in Poses(dim) :
        /\ ret' = [op |-> "Shape::compute_aabb", position |-> position,
                   out |-> Shape_compute_aabb(shape, position)]
        /\ UNCHANGED <<hullVars, shapeVars>>

Next ==
    \/ Call_as_shape
    \/ Call_as_ball
    \/ Call_as_cuboid
    \/ Call_as_capsule
    \/ Call_as_triangle
    \/ Call_as_compound
    \/ Call_as_trimesh
    \/ Call_as_polyline
    \/ Call_as_heightfield
    \/ Call_as_round_cuboid
    \/ Call_as_round_triangle
    \/ Call_as_convex_polygon
    \/ Call_as_round_convex_polygon
    \/ Call_as_convex_polyhedron
    \/ Call_as_cylinder
    \/ Call_as_cone
    \/ Call_as_round_cylinder
    \/ Call_as_round_cone
    \/ Call_as_round_convex_polyhedron
    \/ Call_shape_type
    \/ Call_ccd_thickness
    \/ Call_is_convex
    \/ Call_as_support_map
    \/ Call_compute_local_aabb
    \/ Call_compute_aabb
    \/ Call_Shape_compute_aabb

Spec == Init /\ [][Next]_vars

----------------------------------------------------------------------------
(* Properties of the shape interface *)

\* The concrete type each named accessor is documented to convert to.
AccessorTarget ==
    [as_ball                    |-> <<"Ball">>,
     as_cuboid                  |-> <<"Cuboid">>,
     as_capsule                 |-> <<"Capsule">>,
     as_triangle                |-> <<"Triangle">>,
     as_compound                |-> <<"Compound">>,
     as_trimesh                 |-> <<"TriMesh">>,
     as_polyline                |-> <<"Polyline">>,
     as_heightfield             |-> <<"HeightField">>,
     as_round_cuboid            |-> <<"RoundShape", "Cuboid">>,
     as_round_triangle          |-> <<"RoundShape", "Triangle">>,
     as_convex_polygon          |-> <<"ConvexPolygon">>,
     as_round_convex_polygon    |-> <<"RoundShape", "ConvexPolygon">>,
     as_convex_polyhedron       |-> <<"ConvexPolyhedron">>,
     as_cylinder                |-> <<"Cylinder">>,
     as_cone                    |-> <<"Cone">>,
     as_round_cylinder          |-> <<"RoundShape", "Cylinder">>,
     as_round_cone              |-> <<"RoundShape", "Cone">>,
     as_round_convex_polyhedron |-> <<"RoundShape", "ConvexPolyhedron">>]

\* C2: as_shape::<T>(s) returns Some iff the runtime type of s is exactly T,
\* and then it is the original value; every named accessor returns what
\* as_shape returns for its type.  So as_ball on a Ball returns it, as_ball on
\* a Cuboid returns None, and as_cuboid on a RoundShape<Cuboid> returns None.
C2_DowncastExact ==
    /\ ret.op = "as_shape" =>
          /\ ret.out.some <=> TypeOf(shape) = ret.T
          /\ ret.out.some => ret.out.val = shape
    /\ ret.op \in DOMAIN AccessorTarget =>
          /\ ret.out = as_shape(shape, AccessorTarget[ret.op])
          /\ ret.out.some <=> TypeOf(shape) = AccessorTarget[ret.op]
          /\ ret.out.some => ret.out.val = shape
    /\ (ret.op = "as_ball" /\ shape.type = "Ball") => ret.out = Some(shape)
    /\ (ret.op = "as_ball" /\ shape.type = "Cuboid") => ret.out = None
    /\ (ret.op = "as_cuboid" /\ shape.type = "RoundShape" /\ shape.base_shape.type = "Cuboid")
          => ret.out = None

\* A rounded cuboid asked for through each of the two cuboid accessors.
C2_Witness ==
    /\ shape.type = "RoundShape"
    /\ shape.base_shape.type = "Cuboid"
    /\ \/ ret.op = "as_round_cuboid" /\ ret.out = Some(shape)
       \/ ret.op = "as_cuboid" /\ ret.out = None

\* A shape of every concrete type of the build.
OneOfEach(d) == Primitives(d) \cup RoundShapes(d) \cup {Compound(<<>>)}

\* The round tags of the ShapeType enum.
RoundTags ==
    {"RoundCuboid", "RoundTriangle", "RoundCylinder", "RoundCone", "RoundConvexPolyhedron",
     "RoundConvexPolygon"}

\* C3: two shapes of different concrete types never report the same
\* ShapeType; a RoundShape<S> reports a round tag and never the tag a shape of
\* type S reports; and whenever as_shape::<T>(s) succeeds, s.shape_type() is
\* the tag the shapes of type T report.
C3_ShapeTypeOneToOne ==
    /\ ret.op = "shape_type" =>
          /\ \A t \in OneOfEach(dim) :
                shape_type(t) = ret.out => TypeOf(t) = TypeOf(shape)
          /\ shape.type = "RoundShape" =>
                /\ ret.out \in RoundTags
                /\ \A t \in OneOfEach(dim) :
                      t.type = shape.base_shape.type => shape_type(t) # ret.out
    /\ (ret.op = "as_shape" /\ ret.out.some) =>
          \A t \in OneOfEach(dim) : TypeOf(t) = ret.T => shape_type(t) = shape_type(shape)

\* The tag of a rounded shape has been read.
C3_Witness ==
    /\ ret.op = "shape_type"
    /\ shape.type = "RoundShape"
    /\ ret.out \in RoundTags

\* C4: for a RoundShape with base shape b and border radius r,
\* ccd_thickness() = b.ccd_thickness() + r, is_convex() = b.is_convex(), and
\* compute_local_aabb() is b's local AABB with r subtracted from every
\* coordinate of mins and added to every coordinate of maxs.
C4_RoundShapeDerived ==
    shape.type = "RoundShape" =>
        LET b == shape.base_shape
            r == shape.border_radius
            bb == compute_local_aabb(b)
        IN  /\ ret.op = "ccd_thickness" => ret.out = ccd_thickness(b) + r
            /\ ret.op = "is_convex" => ret.out = is_convex(b)
            /\ ret.op = "compute_local_aabb" =>
                  /\ DOMAIN ret.out.mins = 1..dim
                  /\ DOMAIN ret.out.maxs = 1..dim
                  /\ \A k \in 1..dim :
                        /\ ret.out.mins[k] = bb.mins[k] - r
                        /\ ret.out.maxs[k] = bb.maxs[k] + r

\* The thickness of a rounded shape with a thick base and a border.
C4_Witness ==
    /\ shape.type = "RoundShape"
    /\ shape.border_radius > 0
    /\ ret.op = "ccd_thickness"
    /\ ccd_thickness(shape.base_shape) > 0
    /\ ret.out > shape.border_radius

\* C5 as stated: for every shape s, if s.is_convex() then s.as_support_map()
\* is Some.
C5_ConvexHasSupportMap ==
    ret.op = "as_support_map" => (is_convex(shape) => ret.out.some)

\* C5 as amended: for every shape s other than a HalfSpace, if s.is_convex()
\* then s.as_support_map() is Some(s); a HalfSpace is convex and returns None,
\* as Compound, Polyline, TriMesh and HeightField do.
C5_ConvexHasSupportMapButHalfSpace ==
    ret.op = "as_support_map" =>
        /\ shape.type # "HalfSpace" => (is_convex(shape) => ret.out = Some(shape))
        /\ shape.type \in {"HalfSpace", "Compound", "Polyline", "TriMesh", "HeightField"}
              => ret.out = None
        /\ shape.type = "HalfSpace" => is_convex(shape)

\* The support map of a convex rounded shape has been asked for.
C5_Witness ==
    /\ ret.op = "as_support_map"
    /\ shape.type = "RoundShape"
    /\ is_convex(shape)
    /\ ret.out = Some(shape)

\* C6: for every shape s with non-negative dimensions, s.ccd_thickness() >= 0,
\* also for a compound of any children, a nested compound, a compound without
\* children and a RoundShape.
C6_CcdThicknessNonNegative ==
    ret.op = "ccd_thickness" => ret.out >= 0

\* The thickness of a compound that has a compound among its children.
C6_Witness ==
    /\ ret.op = "ccd_thickness"
    /\ shape.type = "Compound"
    /\ \E k \in 1..Len(shape.shapes) : shape.shapes[k][2].type = "Compound"
    /\ ret.out >= 0

\* C10: for every shape s, s.compute_aabb(identity) = s.compute_local_aabb(),
\* through the provided method and through the overrides of the impls.
C10_AabbAtIdentityIsLocal ==
    (ret.op \in {"compute_aabb", "Shape::compute_aabb"} /\ ret.position = Identity(dim))
        => ret.out = compute_local_aabb(shape)

\* The AABB at the identity of a rounded shape with a border.
C10_Witness ==
    /\ ret.op = "compute_aabb"
    /\ ret.position = Identity(dim)
    /\ shape.type = "RoundShape"
    /\ shape.border_radius > 0
    /\ ret.out = compute_local_aabb(shape)

\* The thicknesses of the children of the compound behind the handle.
ChildThicknesses == {ccd_thickness(shape.shapes[k][2]) : k \in 1..Len(shape.shapes)}

\* C12: Compound::ccd_thickness() is the minimum of ccd_thickness() over the
\* children, whatever their poses and their order, so it is never larger than
\* the thickness of a child; for a compound without children it is Real::MAX.
C12_CompoundThicknessIsMin ==
    (ret.op = "ccd_thickness" /\ shape.type = "Compound") =>
        /\ Len(shape.shapes) = 0 => ret.out = RealMax
        /\ Len(shape.shapes) > 0 => ret.out \in ChildThicknesses
        /\ \A t \in ChildThicknesses : ret.out <= t

\* A compound whose thinnest child is not its first one and sits at a pose
\* other than the identity.
C12_Witness ==
    /\ ret.op = "ccd_thickness"
    /\ shape.type = "Compound"
    /\ Len(shape.shapes) = 2
    /\ shape.shapes[2][1] # Identity(dim)
    /\ ccd_thickness(shape.shapes[2][2]) < ccd_thickness(shape.shapes[1][2])
    /\ ret.out = ccd_thickness(shape.shapes[2][2])

\* The dot products that are finite values of Real.
FiniteReals == (-RealMax)..RealMax

\* C13: the three support-point functions return None only for an empty
\* scan: support_point_id on a non-empty point sequence, and
\* indexed_support_point_id and indexed_support_point_nth on a non-empty
\* sequence of valid indices, return Some whenever the dot products scanned are
\* finite, the most negative finite value included.
C13_NonEmptyGivesSome ==
    /\ ( /\ ret.op = "support_point_id"
         /\ points # <<>>
         /\ \A j \in PointIds : DotAt(j) \in FiniteReals )
          => ret.out.some
    /\ ( /\ ret.op \in {"indexed_support_point_id", "indexed_support_point_nth"}
         /\ idx # <<>>
         /\ \A k \in 1..Len(idx) : idx[k] \in PointIds /\ DotAt(idx[k]) \in FiniteReals )
          => ret.out.some

----------------------------------------------------------------------------
(* normalize *)

(***************************************************************************)
(* normalize divides and takes a square root, so its scalars are modelled  *)
(* exactly, as fractions n/d in lowest terms with d > 0.  The rounding of  *)
(* floating point is left out: what holds of the fractions holds of the    *)
(* code within floating tolerance.                                         *)
(***************************************************************************)

Abs(x) == IF x < 0 THEN -x ELSE x

RECURSIVE GCD(_, _)
GCD(a, b) == IF b = 0 THEN a ELSE GCD(b, a % b)

\* The fraction n/d (d > 0) in lowest terms.
Frac(n, d) == LET g == GCD(Abs(n), d) IN [n |-> n \div g, d |-> d \div g]

\* The Real of an integer.
Real(n) == [n |-> n, d |-> 1]

\* The result of 0.0 / 0.0.
NaN == [n |-> 0, d |-> 0]

RealAdd(a, b) == Frac(a.n * b.d + b.n * a.d, a.d * b.d)

RealNeg(a) == [n |-> -a.n, d |-> a.d]

RealMul(a, b) == Frac(a.n * b.n, a.d * b.d)

RealDiv(a, b) ==
    IF b.n = 0 THEN NaN
    ELSE IF b.n > 0 THEN Frac(a.n * b.d, a.d * b.n)
    ELSE Frac(-(a.n * b.d), a.d * (-b.n))

RealLess(a, b) == a.n * b.d < b.n * a.d

\* The square root of a square.
IntSqrt(x) == CHOOSE r \in 0..x : r * r = x

RealSqrt(a) == [n |-> IntSqrt(a.n), d |-> IntSqrt(a.d)]

\* bounding_volume::details::local_point_cloud_aabb, on points of fractions
RECURSIVE cloud_aabb_from(_, _)
cloud_aabb_from(pts, k) ==
    IF k = Len(pts) THEN AABB(pts[k], pts[k])
    ELSE LET rest == cloud_aabb_from(pts, k + 1)
         IN  AABB([j \in DOMAIN pts[k] |->
                      IF RealLess(pts[k][j], rest.mins[j]) THEN pts[k][j] ELSE rest.mins[j]],
                  [j \in DOMAIN pts[k] |->
                      IF RealLess(rest.maxs[j], pts[k][j]) THEN pts[k][j] ELSE rest.maxs[j]])

cloud_aabb(pts) == cloud_aabb_from(pts, 1)

\* AABB::center
center_of(bb) ==
    [j \in DOMAIN bb.mins |-> RealDiv(RealAdd(bb.mins[j], bb.maxs[j]), Real(2))]

\* na::distance: the Euclidean distance of two points
RECURSIVE SquaredDistanceFrom(_, _, _)
SquaredDistanceFrom(a, b, j) ==
    IF j > Len(a) THEN Real(0)
    ELSE LET diff == RealAdd(a[j], RealNeg(b[j]))
         IN  RealAdd(RealMul(diff, diff), SquaredDistanceFrom(a, b, j + 1))

distance(a, b) == RealSqrt(SquaredDistanceFrom(a, b, 1))

\* normalize: the diagonal and the center it returns
normalize_diag(c) == LET bb == cloud_aabb(c) IN distance(bb.mins, bb.maxs)

normalize_center(c) == center_of(cloud_aabb(c))

\* normalize scaling the points without moving them to the center.
normalize_coords_uncentred(c) ==
    LET diag == normalize_diag(c)
    IN  [k \in DOMAIN c |-> [j \in DOMAIN c[k] |-> RealDiv(c[k][j], diag)]]

\* normalize: the points it leaves in the buffer
normalize_coords(c) ==
    LET diag   == normalize_diag(c)
        center == normalize_center(c)
    IN  [k \in DOMAIN c |->
            [j \in DOMAIN c[k] |-> RealDiv(RealAdd(c[k][j], RealNeg(center[j])), diag)]]

\* Largest point cloud normalized.
MaxCloud == 3

\* The points of the clouds (3-D).
CloudPool ==
    { <<0, 0, 0>>, <<3, 0, 0>>, <<0, 4, 0>>, <<3, 4, 0>>, <<-3, -4, 0>>, <<3, 4, 12>>,
      <<0, 0, 12>> }

IsSquare(x) == \E r \in 0..x : r * r = x

\* The squared length of the diagonal of the AABB of a cloud of integer points.
SquaredDiagonal(c) == LET bb == local_point_cloud_aabb(c)
                      IN  DotFrom([j \in 1..3 |-> bb.maxs[j] - bb.mins[j]],
                                  [j \in 1..3 |-> bb.maxs[j] - bb.mins[j]], 1)

\* The clouds normalize is given: at least two distinct points, as it
\* requires, and a diagonal whose length is a fraction.
Clouds ==
    { [k \in DOMAIN c |-> [j \in 1..3 |-> Real(c[k][j])]] :
        c \in { c \in SeqUpTo(CloudPool, MaxCloud) :
                  /\ \E k, l \in DOMAIN c : c[k] # c[l]
                  /\ IsSquare(SquaredDiagonal(c)) } }

InitNormalize ==
    /\ direction = <<>>
    /\ points = <<>>
    /\ idx = <<>>
    /\ coords \in Clouds
    /\ dim = 3
    /\ shape = NoShape
    /\ ret = NoCall

CallNormalize ==
    /\ coords' = normalize_coords(coords)
    /\ ret' = [op  |-> "normalize", arg |-> coords,
               out |-> <<normalize_center(coords), normalize_diag(coords)>>]
    /\ UNCHANGED <<direction, points, idx, shapeVars>>

NextNormalize == CallNormalize

SpecNormalize == InitNormalize /\ [][NextNormalize]_vars

----------------------------------------------------------------------------
(* Properties of normalize *)

\* The smallest and the largest coordinate j over the points of a cloud.
LowestCoord(c, j) ==
    CHOOSE m \in {c[k][j] : k \in DOMAIN c} : \A k \in DOMAIN c : ~RealLess(c[k][j], m)

HighestCoord(c, j) ==
    CHOOSE m \in {c[k][j] : k \in DOMAIN c} : \A k \in DOMAIN c : ~RealLess(m, c[k][j])

RealSub(a, b) == RealAdd(a, RealNeg(b))

RealSquare(a) == RealMul(a, a)

\* C11: for a cloud with at least two distinct points, normalize returns the
\* center and the corner-to-corner diagonal of the AABB of the original cloud,
\* leaves (p - center) / diagonal in the place of every point p, with the one
\* center and diagonal for all the points, keeps the number and the order of
\* the points, and q * diagonal + center gives back the original point for
\* every point q it leaves.
C11_NormalizeRoundTrip ==
    (ret.op = "normalize" /\ \E k, l \in DOMAIN ret.arg : ret.arg[k] # ret.arg[l]) =>
        LET orig     == ret.arg
            center   == ret.out[1]
            diagonal == ret.out[2]
            lo(j)    == LowestCoord(orig, j)
            hi(j)    == HighestCoord(orig, j)
        IN  /\ \A j \in 1..3 : RealAdd(center[j], center[j]) = RealAdd(lo(j), hi(j))
            /\ RealLess(Real(0), diagonal)
            /\ RealSquare(diagonal) =
                  RealAdd(RealSquare(RealSub(hi(1), lo(1))),
                          RealAdd(RealSquare(RealSub(hi(2), lo(2))),
                                  RealSquare(RealSub(hi(3), lo(3)))))
            /\ Len(coords) = Len(orig)
            /\ \A k \in 1..Len(orig) : \A j \in 1..3 :
                  /\ coords[k][j] = RealDiv(RealSub(orig[k][j], center[j]), diagonal)
                  /\ RealAdd(RealMul(coords[k][j], diagonal), center[j]) = orig[k][j]

\* A cloud of three points off the origin has been moved and scaled.
C11_Witness ==
    /\ ret.op = "normalize"
    /\ Len(ret.arg) = 3
    /\ \E j \in 1..3 : ret.out[1][j] # Real(0)
    /\ ret.out[2] # Real(1)
    /\ \A k \in 1..3 : coords[k] # ret.arg[k]

====
